---- MODULE Spec2Model ----
(***************************************************************************)
(* Availability baseline and pickup engine (availability_baseline.py),     *)
(* velocity-based pickup anomaly module (pickup_anomaly.py) and            *)
(* progression query (app.py).                                             *)
(*                                                                         *)
(* Calendar dates are day numbers counted from Monday 2025-05-05 (day 0),  *)
(* so 2025-05-13 is day 8.  A creation timestamp is an integer instant.    *)
(* A Python float is a fixed-point number with two fractional bits: the    *)
(* number x is held as 4*x.  Medians of integers are multiples of 1/2 and  *)
(* medians of such medians are multiples of 1/4, so every float of the     *)
(* pickup and prediction code is held exactly.                             *)
(* A dict is a function on its key set, except where the code depends on   *)
(* the iteration order of the dict (the baseline table read by             *)
(* evaluate_anomaly), which is a sequence of entries in insertion order.   *)
(* The floats of the velocity module are exact fractions (Rat); the        *)
(* smoothed medians and scales of the Baseline Estimator are kept as the   *)
(* lists of their weighted terms.                                          *)
(***************************************************************************)
EXTENDS Integers, Sequences, FiniteSets, TLC

VARIABLES
    records,       \* the raw records loaded so far (a list)
    latest,        \* select_latest_snapshot_per_parse_day(records)
    totals,        \* the Totals Table {(check_in, parse_date): total}
    lt_series,     \* the Lead-Time Series {(check_in, lead): total}
    pickup,        \* the Pickup Table {(lead, weekday): median delta}
    curve,         \* the last result of predict_curve_from
    curve_args,    \* the arguments of that call
    baseline,      \* the Baseline Table handed to evaluate_anomaly
    anomaly,       \* the last AnomalyResult
    anomaly_args,  \* the arguments of that call
    pc,            \* the stage of the pipeline
    base_raw,      \* the result of compute_baseline_and_scale
    base_smooth,   \* the result of smooth_baseline
    issue_args,    \* the arguments of a call of analyze_pickup_issues
    metrics,       \* the PickupMetrics it returned
    cutoff_date,   \* the training cutoff of find_anomaly_dates
    future_days,   \* its window of future check-in dates
    hist,          \* the result of build_historical_baselines
    anomalies,     \* the list find_anomaly_dates returns
    request,       \* the query parameters of a progression query
    response       \* the response of api_progression

\* The tables of the Baseline Estimator.
baseVars == <<base_raw, base_smooth>>

\* The state of the velocity-based pickup anomaly module.
velocityVars == <<issue_args, metrics, cutoff_date, future_days, hist, anomalies>>

\* The state of the query layer.
queryVars == <<request, response>>

vars == <<records, latest, totals, lt_series, pickup, curve, curve_args,
          baseline, anomaly, anomaly_args, pc, baseVars, velocityVars,
          queryVars>>

\* ---------------------------------------------------------------- bounds

\* Longest list of raw records loaded.
MaxRecords == 3

\* Largest lead time (days before check-in) of an observation.
MaxLead == 3

\* Largest number of buckets of a baseline table handed to evaluate_anomaly.
MaxBuckets == 2

\* The largest lead of the lead-time series given to the Baseline Estimator.
MaxBaseLead == 4

\* The largest number of points of a progression given to
\* analyze_pickup_issues.
MaxProg == 6

\* The largest window (future_days) given to find_anomaly_dates.
MaxFutureDays == 3

\* The largest number of rows loaded by the server that answers queries.
MaxQueryRecords == 2

\* ------------------------------------------------------- generic helpers

\* An empty dict.
EmptyDict == [k \in {} |-> 0]

\* float(x) of an integer x.
Float(x) == 4 * x

\* max(a, b)
Max(a, b) == IF a >= b THEN a ELSE b

\* sum(f[k] for k in S)
RECURSIVE SumOver(_, _)
SumOver(f, S) ==
    IF S = {} THEN 0
    ELSE LET k == CHOOSE x \in S : TRUE
         IN  f[k] + SumOver(f, S \ {k})

\* sorted(S, reverse=True) of a set of integers.
RECURSIVE sorted_reverse(_)
sorted_reverse(S) ==
    IF S = {} THEN << >>
    ELSE LET m == CHOOSE x \in S : \A y \in S : y <= x
         IN  <<m>> \o sorted_reverse(S \ {m})

\* sorted(S) of a set of integers.
RECURSIVE sorted_asc(_)
sorted_asc(S) ==
    IF S = {} THEN << >>
    ELSE LET m == CHOOSE x \in S : \A y \in S : x <= y
         IN  <<m>> \o sorted_asc(S \ {m})

\* statistics.median of a non-empty list: the middle element of the sorted
\* list, or the mean of the two middle elements.
median(values) ==
    LET s == SortSeq(values, LAMBDA a, b : a < b)
        n == Len(s)
    IN  IF n % 2 = 1 THEN s[(n + 1) \div 2]
        ELSE (s[n \div 2] + s[n \div 2 + 1]) \div 2

\* [f(v) for v in values]
FloatAll(values) == [i \in 1..Len(values) |-> Float(values[i])]

\* Monday = 0 ... Sunday = 6; day 0 is a Monday.
weekday_of(d) == d % 7

\* ------------------------------------------------------ Snapshot Reducer

SnapshotRecord(ci, pd, cdt, room, avail) ==
    [check_in_date |-> ci, parse_date |-> pd, creation_dt |-> cdt,
     room_id |-> room, availability |-> avail]

\* One iteration of the loop that finds the max creation_dt per parse_date.
latest_dt_step(acc, r) ==
    IF r.parse_date \notin DOMAIN acc \/ r.creation_dt > acc[r.parse_date]
    THEN [d \in DOMAIN acc \cup {r.parse_date} |->
             IF d = r.parse_date THEN r.creation_dt ELSE acc[d]]
    ELSE acc

RECURSIVE latest_dt_by_parse(_, _, _)
latest_dt_by_parse(recs, i, acc) ==
    IF i > Len(recs) THEN acc
    ELSE latest_dt_by_parse(recs, i + 1, latest_dt_step(acc, recs[i]))

\* Faulty variant: the filter keeps every record of the parse day.
select_latest_keep_all(recs) == recs

select_latest_snapshot_per_parse_day(recs) ==
    LET latest_dt == latest_dt_by_parse(recs, 1, EmptyDict)
    IN  SelectSeq(recs, LAMBDA r : r.creation_dt = latest_dt[r.parse_date])

\* Faulty variant: a later record of the room replaces the value instead of the
\* larger one being kept.
max_avail_step_last(acc, r) ==
    LET key == <<r.check_in_date, r.parse_date, r.room_id>>
    IN  [k \in DOMAIN acc \cup {key} |->
            IF k = key THEN r.availability ELSE acc[k]]

\* One iteration of the dedupe loop: max availability per (check_in, parse,
\* room).
max_avail_step(acc, r) ==
    LET key == <<r.check_in_date, r.parse_date, r.room_id>>
    IN  IF key \notin DOMAIN acc \/ r.availability > acc[key]
        THEN [k \in DOMAIN acc \cup {key} |->
                 IF k = key THEN r.availability ELSE acc[k]]
        ELSE acc

RECURSIVE max_avail_by_key(_, _, _)
max_avail_by_key(recs, i, acc) ==
    IF i > Len(recs) THEN acc
    ELSE max_avail_by_key(recs, i + 1, max_avail_step(acc, recs[i]))

\* Faulty variant: the room's availability is added unclamped.
room_contribution_unclamped(avail) == avail

\* What one deduped room adds to its total: max(0, avail).
room_contribution(avail) == Max(0, avail)

aggregate_total_availability(recs) ==
    LET by_key == max_avail_by_key(recs, 1, EmptyDict)
        pairs  == {<<k[1], k[2]>> : k \in DOMAIN by_key}
        contrib == [k \in DOMAIN by_key |-> room_contribution(by_key[k])]
    IN  [p \in pairs |->
            SumOver(contrib, {k \in DOMAIN by_key : <<k[1], k[2]>> = p})]

\* --------------------------------------------------- Lead-Time Projector

\* Faulty variant: lead 0 is dropped.
keep_lead_positive(lead) == lead > 0

\* The guard of the projector: keep L >= 0.
keep_lead(lead) == lead >= 0

to_lead_time_series(tot) ==
    LET kept == {p \in DOMAIN tot : keep_lead(p[1] - p[2])}
    IN  [k \in {<<p[1], p[1] - p[2]>> : p \in kept} |->
            tot[<<k[1], k[1] - k[2]>>]]

\* ------------------------------------------------------ Pickup Estimator

\* by_check_in: the trajectory {lead: total} of every check-in date.
by_check_in(lt) ==
    [ci \in {k[1] : k \in DOMAIN lt} |->
        [L \in {k[2] : k \in {kk \in DOMAIN lt : kk[1] = ci}} |-> lt[<<ci, L>>]]]

\* Faulty variant: the delta of the pair walked, whatever the gap between
\* its leads.
pair_delta_no_guard(series, leads_sorted, i) ==
    <<series[leads_sorted[i]] - series[leads_sorted[i - 1]]>>

\* The body of the loop over the sorted leads at (1-based) position i: the
\* delta the pair (leads_sorted[i-1], leads_sorted[i]) appends to the bucket
\* of lead L = leads_sorted[i], as a list of zero or one element.
pair_delta(series, leads_sorted, i) ==
    LET L      == leads_sorted[i]
        prev_L == leads_sorted[i - 1]
    IN  IF prev_L = L + 1
        THEN IF (L - 1) \in DOMAIN series
             THEN <<series[L - 1] - series[L]>>
             ELSE << >>
        ELSE << >>

\* What the trajectory of one check-in date appends to the bucket of lead L.
trajectory_deltas(series, L) ==
    LET leads_sorted == sorted_reverse(DOMAIN series)
        at == {i \in 2..Len(leads_sorted) : leads_sorted[i] = L}
    IN  IF at = {} THEN << >>
        ELSE pair_delta(series, leads_sorted, CHOOSE i \in at : TRUE)

\* deltas[(L, wd)]: the deltas of the check-in dates of weekday wd, walked
\* in ascending date order (the median does not depend on the order).
RECURSIVE bucket_deltas(_, _, _, _)
bucket_deltas(trajectories, check_ins, L, wd) ==
    IF check_ins = << >> THEN << >>
    ELSE LET ci == Head(check_ins)
             here == IF weekday_of(ci) = wd
                     THEN trajectory_deltas(trajectories[ci], L)
                     ELSE << >>
         IN  here \o bucket_deltas(trajectories, Tail(check_ins), L, wd)

deltas(lt, key) ==
    LET trajectories == by_check_in(lt)
    IN  bucket_deltas(trajectories, sorted_asc(DOMAIN trajectories),
                      key[1], key[2])

compute_pickup_curve(lt) ==
    LET keys == {<<k[2], weekday_of(k[1])>> : k \in DOMAIN lt}
        filled == {key \in keys : deltas(lt, key) # << >>}
    IN  [key \in filled |-> median(FloatAll(deltas(lt, key)))]

\* ------------------------------------------------------- Curve Predictor

\* Faulty variant: the cross-weekday fallback is skipped.
pickup_delta_no_fallback(pk, L, weekday) ==
    IF <<L, weekday>> \in DOMAIN pk THEN pk[<<L, weekday>>] ELSE 0

\* The delta applied at lead L: the bucket (L, weekday), else the median of
\* the buckets of lead L of all weekdays, else 0.0.
pickup_delta(pk, L, weekday) ==
    IF <<L, weekday>> \in DOMAIN pk THEN pk[<<L, weekday>>]
    ELSE LET alt_keys == sorted_asc({k[2] : k \in {kk \in DOMAIN pk : kk[1] = L}})
             alt == [i \in 1..Len(alt_keys) |-> pk[<<L, alt_keys[i]>>]]
         IN  IF alt # << >> THEN median(alt) ELSE Float(0)

\* Faulty variant: the floor at zero is left out.
next_val_unfloored(expected_at_L, delta) == expected_at_L + delta

\* next_val = max(0.0, expected_at_L + delta)
next_val(expected_at_L, delta) == Max(Float(0), expected_at_L + delta)

\* float(lt_series.get((check_in, start_lead), 0))
seed(lt, check_in, start_lead) ==
    IF <<check_in, start_lead>> \in DOMAIN lt
    THEN Float(lt[<<check_in, start_lead>>]) ELSE Float(0)

\* The loop for L in range(start_lead, 0, -1), entered at lead L with the
\* curve built so far.
RECURSIVE roll_down(_, _, _, _, _)
roll_down(pk, weekday, L, expected_at_L, acc) ==
    IF L <= 0 THEN acc
    ELSE LET nv == next_val(expected_at_L, pickup_delta(pk, L, weekday))
         IN  roll_down(pk, weekday, L - 1, nv, Append(acc, <<L - 1, nv>>))

predict_curve_from(lt, pk, check_in, start_lead) ==
    LET expected_at_L == seed(lt, check_in, start_lead)
    IN  roll_down(pk, weekday_of(check_in), start_lead, expected_at_L,
                  <<<<start_lead, expected_at_L>>>>)

\* ----------------------------------------------------- Anomaly Evaluator

\* The value of the entry of key (lead, weekday), as a list of zero or one
\* element: baseline.get((lead, weekday)).
baseline_get(bl, lead, weekday) ==
    SelectSeq(bl, LAMBDA e : e.lead = lead /\ e.weekday = weekday)

\* candidates = [v for (L, _wd), v in baseline.items() if L == lead]
candidates(bl, lead) == SelectSeq(bl, LAMBDA e : e.lead = lead)

\* Faulty variant: the fallback takes the first bucket of the table, whatever its
\* lead.
lookup_any_lead(bl, lead, weekday) ==
    LET base == baseline_get(bl, lead, weekday)
    IN  IF base # << >> THEN [med |-> base[1].med, scale |-> base[1].scale]
        ELSE IF bl # << >> THEN [med |-> bl[1].med, scale |-> bl[1].scale]
        ELSE [med |-> Float(0), scale |-> Float(1)]

\* The (med, scale) evaluate_anomaly works with.
lookup(bl, lead, weekday) ==
    LET base == baseline_get(bl, lead, weekday)
        cand == candidates(bl, lead)
    IN  IF base # << >> THEN [med |-> base[1].med, scale |-> base[1].scale]
        ELSE IF cand # << >> THEN [med |-> cand[1].med, scale |-> cand[1].scale]
        ELSE [med |-> Float(0), scale |-> Float(1)]

\* z < -z_threshold, for z = z_num / z_den with z_den > 0.
z_below(z_num, z_den, z_threshold) == Float(z_num) < -(z_threshold * z_den)

\* z > z_threshold
z_above(z_num, z_den, z_threshold) == Float(z_num) > z_threshold * z_den

\* Faulty variant: the comparisons are not strict.
flag_of_inclusive(z_num, z_den, z_threshold) ==
    IF Float(z_num) <= -(z_threshold * z_den) THEN "low"
    ELSE IF Float(z_num) >= z_threshold * z_den THEN "high"
    ELSE "normal"

flag_of(z_num, z_den, z_threshold) ==
    IF z_below(z_num, z_den, z_threshold) THEN "low"
    ELSE IF z_above(z_num, z_den, z_threshold) THEN "high"
    ELSE "normal"

\* The z-score is the exact quotient z_num / z_den.
evaluate_anomaly(observed, bl, lead, weekday, z_threshold) ==
    LET b     == lookup(bl, lead, weekday)
        z_num == Float(observed) - b.med
        z_den == IF b.scale > 0 THEN b.scale ELSE Float(1)
    IN  [observed |-> observed, baseline |-> b.med, scale |-> b.scale,
         z_num |-> z_num, z_den |-> z_den,
         flag |-> flag_of(z_num, z_den, z_threshold)]

\* ------------------------------------------------------------ the inputs

\* The snapshots taken: day 8 was scraped twice (instants 1 and 2), day 9
\* once (instant 3).
Scrapes == {<<8, 1>>, <<8, 2>>, <<9, 3>>}

\* The raw rows the loader may read: check-in dates 8 and 9 seen from day 8
\* (leads 0 and 1) and check-in date 8 seen from day 9 (after the stay).
RecordInputs ==
    {r \in {SnapshotRecord(ci, sc[1], sc[2], room, avail) :
                ci \in {8, 9}, sc \in Scrapes, room \in {1, 2},
                avail \in {-1, 2, 3}} :
        ~(r.check_in_date = 9 /\ r.parse_date = 9)}

\* The check-in dates of the lead-time series the pickup estimator is run
\* on: two Tuesdays and a Wednesday.
CurveCheckIns == {8, 9, 15}

\* Totals by lead (lead L at position L + 1).  Profile1 holds the totals
\* 10, 9, 7, 5 at leads 3, 2, 1, 0 of the repository's test.
Profile1 == <<5, 7, 9, 10, 12>>

Profile2 == <<6, 2, 3, 0, 1>>

Profiles == <<Profile1, Profile2>>

\* The lead-time series in which check-in date ci was observed at the leads
\* shape[ci] with the totals of profile prof[ci].
LtSeriesOf(shape, prof) ==
    [k \in {<<ci, L>> : ci \in DOMAIN shape, L \in 0..MaxLead} \cap
           {kk \in (DOMAIN shape) \X (0..MaxLead) : kk[2] \in shape[kk[1]]} |->
        Profiles[prof[k[1]]][k[2] + 1]]

\* The lead-time series of the repository's test: 2025-05-13 observed at
\* leads 3, 2, 1, 0 with totals 10, 9, 7, 5.
ExampleLtSeries ==
    [k \in {<<8, L>> : L \in 0..3} |-> Profile1[k[2] + 1]]

\* Pickup tables a caller may hand to predict_curve_from: each weekday has
\* no bucket or one delta (-12.0 or +1.5) at each lead of a set of leads,
\* Tuesday (1) at the leads tue, Wednesday and Thursday at the leads other.
PickupDeltas == {-48, 6}

PickupOf(tue, other, col) ==
    [k \in {kk \in (1..MaxLead) \X DOMAIN col :
                /\ col[kk[2]] # 0
                /\ kk[1] \in (IF kk[2] = 1 THEN tue ELSE other)} |-> col[k[2]]]

PickupInputs ==
    {PickupOf(tue, other, col) :
        tue \in SUBSET (1..MaxLead), other \in SUBSET (1..MaxLead),
        col \in [{1, 2, 3} -> PickupDeltas \cup {0}]}

\* A bucket of a baseline table.
BaselineEntries ==
    [lead : {0, 1}, weekday : {0, 1}, med : {Float(0), Float(2)},
     scale : {0, Float(1), 6}, n : {1}]

\* A dict has one entry per key.
DistinctKeys(bl) ==
    \A i, j \in 1..Len(bl) :
        (bl[i].lead = bl[j].lead /\ bl[i].weekday = bl[j].weekday) => i = j

RECURSIVE SeqsUpTo(_, _)
SeqsUpTo(S, n) ==
    IF n = 0 THEN {<< >>}
    ELSE LET shorter == SeqsUpTo(S, n - 1)
         IN  shorter \cup {Append(q, x) : q \in shorter, x \in S}

BaselineInputs == {bl \in SeqsUpTo(BaselineEntries, MaxBuckets) : DistinctKeys(bl)}

\* z thresholds: 1.5 and the default 2.0.
Thresholds == {6, Float(2)}

NoCurveArgs == [check_in |-> -1, start_lead |-> -1]

NoAnomalyArgs == [observed |-> -1, lead |-> -1, weekday |-> -1, z_threshold |-> -1]

NoAnomaly ==
    [observed |-> -1, baseline |-> 0, scale |-> 0, z_num |-> 0, z_den |-> 1,
     flag |-> "none"]

\* ---------------------------------------------------- Baseline Estimator

\* by_key of compute_baseline_and_scale: the totals of every (lead, weekday)
\* in the order of the check-in dates.
by_key(lt) ==
    [key \in {<<k[2], weekday_of(k[1])>> : k \in DOMAIN lt} |->
        LET dates == sorted_asc({k[1] : k \in
                        {kk \in DOMAIN lt : /\ kk[2] = key[1]
                                            /\ weekday_of(kk[1]) = key[2]}})
        IN  [i \in 1..Len(dates) |-> lt[<<dates[i], key[1]>>]]]

\* [abs(v - med) for v in values], med a float.
abs_dev(values, med) ==
    [i \in 1..Len(values) |->
        IF Float(values[i]) >= med THEN Float(values[i]) - med
        ELSE med - Float(values[i])]

\* 1.4826 * mad, or 1.0 when that is 0.0.  The scale is kept in units of
\* 1/40000 (mad is in quarters), so 1.0 is 40000.
mad_scaled(mad) == IF 14826 * mad = 0 THEN 40000 ELSE 14826 * mad

\* (med, mad_scaled, len(values)) of one bucket.
bucket_stats(values) ==
    LET med == median(FloatAll(values))
    IN  [med |-> med,
         scale |-> mad_scaled(median(abs_dev(values, med))),
         n |-> Len(values)]

\* Faulty variant: buckets of a single sample are skipped.
bucket_kept_min2(values) == Len(values) >= 2

\* "if not values: continue"
bucket_kept(values) == values # << >>

compute_baseline_and_scale(lt) ==
    LET groups == by_key(lt)
    IN  [key \in {k \in DOMAIN groups : bucket_kept(groups[k])} |->
            bucket_stats(groups[key])]

\* The raw buckets found by the loop over dl in range(-window, window + 1)
\* around (lead, wd), in the order of the loop.  The tri-cube weight of a
\* term is a function of its dl.
window_terms(base, lead, wd, window) ==
    LET dls == sorted_asc({dl \in (0 - window)..window :
                              <<lead + dl, wd>> \in DOMAIN base})
    IN  [i \in 1..Len(dls) |->
            [dl |-> dls[i],
             med |-> base[<<lead + dls[i], wd>>].med,
             scale |-> base[<<lead + dls[i], wd>>].scale,
             n |-> base[<<lead + dls[i], wd>>].n]]

\* Faulty variant: the count of the bucket itself, as the docstring of
\* smooth_baseline has it.
total_n_own(terms) ==
    SumOver([i \in 1..Len(terms) |-> IF terms[i].dl = 0 THEN terms[i].n ELSE 0],
            1..Len(terms))

\* total_n of smooth_baseline: the counts of the terms, summed.
total_n(terms) == SumOver([i \in 1..Len(terms) |-> terms[i].n], 1..Len(terms))

\* Faulty variant: only the raw buckets are smoothed.
smooth_keys_raw(base) == DOMAIN base

\* The pairs the two loops of smooth_baseline visit: every weekday of the
\* table with every lead of the table.
smooth_keys(base) ==
    {k[1] : k \in DOMAIN base} \X {k[2] : k \in DOMAIN base}

\* smooth_baseline.  The smoothed median and scale are the averages of the
\* terms weighted by tricube(|dl| / (window + 1e-9)) * n (the scale floored
\* at 1.0); they are kept as the list of their terms, the weights being
\* non-zero numbers as small as 1e-27.  The count is computed.
smooth_baseline(base, window) ==
    [key \in {k \in smooth_keys(base) :
                 window_terms(base, k[1], k[2], window) # << >>} |->
        LET terms == window_terms(base, key[1], key[2], window)
        IN  [weighted |-> terms, n |-> total_n(terms)]]

\* Check-in dates of the baseline inputs: two Tuesdays and a Wednesday.
BaseCheckIns == {8, 9, 15}

\* Totals by lead of the baseline inputs.
BaseProfiles ==
    {[L \in 0..MaxBaseLead |-> 5 + 2 * L], [L \in 0..MaxBaseLead |-> (3 * L + 1) % 5]}

\* Lead-time series of the baseline inputs: the first Tuesday observed at
\* any leads, the other dates at a lead, the two ends, or not at all.
BaseLtInputs ==
    {[k \in {kk \in BaseCheckIns \X (0..MaxBaseLead) : kk[2] \in shape[kk[1]]} |->
         prof[k[1]][k[2]]] :
       shape \in {sh \in [BaseCheckIns -> SUBSET (0..MaxBaseLead)] :
                     \A ci \in BaseCheckIns \ {8} :
                         sh[ci] \in {{}, {0}, {MaxBaseLead}, {0, MaxBaseLead}}},
       prof \in [BaseCheckIns -> BaseProfiles]}

\* ------------------------------------ Velocity-Based Pickup Anomaly Module

\* Python floats of this module are exact fractions num/den, den > 0, in
\* lowest terms.
RECURSIVE gcd(_, _)
gcd(a, b) == IF b = 0 THEN a ELSE gcd(b, a % b)

Abs(x) == IF x < 0 THEN 0 - x ELSE x

\* n / d
Rat(n, d) ==
    LET g == gcd(Abs(n), Abs(d))
        s == IF d < 0 THEN 0 - 1 ELSE 1
    IN  [num |-> s * (n \div g), den |-> s * (d \div g)]

\* a < b
RatLt(a, b) == a.num * b.den < b.num * a.den

Min(a, b) == IF a <= b THEN a ELSE b

\* sum(values)
SumSeq(values) == SumOver(values, DOMAIN values)

\* progression[-k:] for 1 <= k
LastPoints(progression, k) ==
    SubSeq(progression, Max(1, Len(progression) - k + 1), Len(progression))

\* compute_pickup_velocity: the least-squares slope of the totals against
\* the days since the first point of the window.  numerator and denominator
\* of the code are the two terms below, each divided by n.
compute_pickup_velocity(progression, window_days) ==
    IF Len(progression) < 2 THEN Rat(0, 1)
    ELSE LET recent == LastPoints(progression, Min(Len(progression), window_days))
             n == Len(recent)
             x_vals == [i \in 1..n |-> recent[i][1] - recent[1][1]]
             y_vals == [i \in 1..n |-> recent[i][2]]
             numerator == n * SumSeq([i \in 1..n |-> x_vals[i] * y_vals[i]])
                              - SumSeq(x_vals) * SumSeq(y_vals)
             denominator == n * SumSeq([i \in 1..n |-> x_vals[i] * x_vals[i]])
                                - SumSeq(x_vals) * SumSeq(x_vals)
         IN  IF n < 2 THEN Rat(0, 1)
             ELSE IF Cardinality({x_vals[i] : i \in 1..n}) < 2 THEN Rat(0, 1)
             ELSE IF denominator # 0 THEN Rat(numerator, denominator)
             ELSE Rat(0, 1)

\* statistics.stdev(values) squared, for two values or more: the sample
\* variance.
variance(values) ==
    LET n == Len(values)
    IN  Rat(n * SumSeq([i \in 1..n |-> values[i] * values[i]])
                - SumSeq(values) * SumSeq(values),
            n * (n - 1))

\* The trend of the recent totals.
trend_of(recent_avails) ==
    LET first == recent_avails[1]
        last == recent_avails[Len(recent_avails)]
    IN  IF last < first - 1 THEN "declining"
        ELSE IF last > first + 1 THEN "increasing"
        ELSE "stable"

\* baselines[...].get(key): whether the bucket has a baseline.
has_baseline(table, key) == key \in DOMAIN table

\* Faulty variant: a stalled pickup is flagged whatever the trend.
stalled_any_trend(trend, days_to_arrival, current_avail) ==
    days_to_arrival < 14 /\ current_avail > 2

\* The condition of stalled_pickup.
stalled(trend, days_to_arrival, current_avail) ==
    trend = "stable" /\ days_to_arrival < 14 /\ current_avail > 2

\* One flag of the list, or nothing.
flag_if(cond, flag) == IF cond THEN <<flag>> ELSE << >>

\* The issues list of analyze_pickup_issues.  vol_sq is the square of the
\* volatility, so volatility > 3.0 is vol_sq > 9.
issue_flags_of(velocity_table, avail_table, key, velocity, avail, days, trend, vol_sq) ==
    flag_if(/\ has_baseline(velocity_table, key)
            /\ RatLt(velocity_table[key].p75, velocity)
            /\ days < 30, "slow_pickup")
    \o flag_if(/\ has_baseline(velocity_table, key)
               /\ RatLt(velocity, velocity_table[key].p25)
               /\ days > 45, "fast_pickup")
    \o flag_if(/\ has_baseline(avail_table, key)
               /\ RatLt(avail_table[key].p75, Rat(avail, 1))
               /\ days < 21, "high_availability")
    \o flag_if(/\ has_baseline(avail_table, key)
               /\ RatLt(Rat(avail, 1), avail_table[key].p25)
               /\ days > 30, "early_sellout")
    \o flag_if(stalled(trend, days, avail), "stalled_pickup")
    \o flag_if(RatLt(Rat(9, 1), vol_sq), "erratic_pickup")

\* window_days of the call of compute_pickup_velocity in
\* analyze_pickup_issues.
velocity_window == 7

\* analyze_pickup_issues.  The metrics carry the square of the volatility.
analyze_pickup_issues(check_in, progression, baselines, as_of) ==
    IF progression = << >>
    THEN [check_in |-> check_in, current_availability |-> 0,
          expected_availability |-> Rat(0, 1), pickup_velocity |-> Rat(0, 1),
          expected_velocity |-> Rat(0, 1), days_to_arrival |-> 0,
          volatility_sq |-> Rat(0, 1), trend |-> "unknown",
          issue_flags |-> <<"no_data">>]
    ELSE LET current_avail == progression[Len(progression)][2]
             days_to_arrival == check_in - as_of
             key == <<days_to_arrival \div 7, weekday_of(check_in)>>
             velocity_table == baselines.velocity_baselines
             avail_table == baselines.avail_baselines
             recent_velocity == compute_pickup_velocity(progression, velocity_window)
             last5 == LastPoints(progression, 5)
             recent_avails == [i \in 1..Len(last5) |-> last5[i][2]]
             volatility_sq == IF Len(progression) >= 3 THEN variance(recent_avails)
                              ELSE Rat(0, 1)
             trend == IF Len(progression) >= 3 THEN trend_of(recent_avails)
                      ELSE "unknown"
         IN  [check_in |-> check_in,
              current_availability |-> current_avail,
              expected_availability |->
                  IF has_baseline(avail_table, key) THEN avail_table[key].median
                  ELSE Rat(3, 1),
              pickup_velocity |-> recent_velocity,
              expected_velocity |->
                  IF has_baseline(velocity_table, key)
                  THEN velocity_table[key].median
                  ELSE Rat(0 - 1, 2),
              days_to_arrival |-> days_to_arrival,
              volatility_sq |-> volatility_sq,
              trend |-> trend,
              issue_flags |-> issue_flags_of(velocity_table, avail_table, key,
                                             recent_velocity, current_avail,
                                             days_to_arrival, trend, volatility_sq)]

\* The day the target dates are looked at from (2025-05-25).
IssueAsOf == 20

\* Days to arrival on both sides of every limit of the flag rules.
IssueDaysToArrival == {13, 14, 20, 21, 29, 30, 31, 45, 46}

\* Totals of the progressions given to analyze_pickup_issues.
IssueTotals == {2, 3, 10}

\* Progressions of up to MaxProg consecutive days ending at as_of.
IssueProgressions ==
    UNION {{[i \in 1..n |-> <<IssueAsOf - n + i, tot[i]>>] :
               tot \in [1..n -> IssueTotals]} : n \in 0..MaxProg}

\* A baseline table with the entry (median, p25, p75) for every lead bucket
\* and the weekdays wds.
IssueTable(wds, med, lo, hi) ==
    [k \in (0..7) \X wds |-> [median |-> med, p25 |-> lo, p75 |-> hi]]

\* Baselines given to analyze_pickup_issues: each table is empty, covers
\* every bucket, or covers only Monday check-ins.
IssueBaselines ==
    {[velocity_baselines |-> v, avail_baselines |-> a] :
        v \in {IssueTable(wds, Rat(0 - 1, 2), Rat(0 - 1, 1), Rat(0, 1)) :
                  wds \in {{}, {0}, 0..6}},
        a \in {IssueTable(wds, Rat(3, 1), Rat(3, 1), Rat(3, 1)) :
                  wds \in {{}, {0}, 0..6}}}

\* a + b
RatAdd(a, b) == Rat(a.num * b.den + b.num * a.den, a.den * b.den)

\* a * k / n for integers k and n > 0
RatScale(a, k, n) == Rat(a.num * k, a.den * n)

\* sorted(vals) of a list of fractions.
sorted_rats(vals) == SortSeq(vals, RatLt)

\* statistics.median(vals) of a non-empty list of fractions.
rat_median(vals) ==
    LET s == sorted_rats(vals)
        n == Len(s)
    IN  IF n % 2 = 1 THEN s[(n + 1) \div 2]
        ELSE RatScale(RatAdd(s[n \div 2], s[n \div 2 + 1]), 1, 2)

\* statistics.quantiles(vals, n=4)[i - 1] (method "exclusive") of a list of
\* two fractions or more.
quantile(vals, i) ==
    LET data == sorted_rats(vals)
        ld == Len(data)
        m == ld + 1
        j0 == (i * m) \div 4
        j == IF j0 < 1 THEN 1 ELSE IF j0 > ld - 1 THEN ld - 1 ELSE j0
        delta == i * m - j * 4
    IN  RatAdd(RatScale(data[j], 4 - delta, 4), RatScale(data[j + 1], delta, 4))

\* The entry of a published bucket: median, p25, p75.
baseline_of(vals) ==
    [median |-> rat_median(vals),
     p25 |-> IF Len(vals) >= 4 THEN quantile(vals, 1) ELSE sorted_rats(vals)[1],
     p75 |-> IF Len(vals) >= 4 THEN quantile(vals, 3)
             ELSE sorted_rats(vals)[Len(vals)]]

\* Faulty variant: the training keeps every record.
train_filter_none(recs, cutoff) == recs

\* train_records of build_historical_baselines.
train_filter(recs, cutoff) == SelectSeq(recs, LAMBDA r : r.parse_date < cutoff)

\* by_checkin[ci]
records_of(recs, ci) == SelectSeq(recs, LAMBDA r : r.check_in_date = ci)

\* sum(max(avails) for avails in by_pd[pd].values())
total_on(ci_records, pd) ==
    LET rows == {ci_records[i] : i \in
                    {k \in 1..Len(ci_records) : ci_records[k].parse_date = pd}}
        rooms == {r.room_id : r \in rows}
        max_of(room) == CHOOSE a \in {r.availability : r \in {rr \in rows : rr.room_id = room}} :
                            \A r \in rows : r.room_id = room => r.availability <= a
    IN  SumOver([room \in rooms |-> max_of(room)], rooms)

\* The progression of a check-in date: (parse date, total) by parse date.
progression_of(ci_records) ==
    LET pds == sorted_asc({ci_records[i].parse_date : i \in 1..Len(ci_records)})
    IN  [i \in 1..Len(pds) |-> <<pds[i], total_on(ci_records, pds[i])>>]

\* The check-in dates the training uses: 10 records or more and 5 parse
\* dates or more.
trained(ci_records) ==
    /\ Len(ci_records) >= 10
    /\ Len(progression_of(ci_records)) >= 5

\* The positions (check-in date, 1-based index) of the progressions whose
\* lead is positive; for a velocity the index is 3 or more ("i >= 2" of the
\* code, 0-based).
pattern_positions(progs, kind) ==
    {p \in UNION {{<<ci, i>> : i \in 1..Len(progs[ci])} : ci \in DOMAIN progs} :
        /\ p[1] - progs[p[1]][p[2]][1] > 0
        /\ kind = "velocity" => p[2] >= 3}

\* (lead // 7, wd) of a position.
pattern_key(progs, p) ==
    <<(p[1] - progs[p[1]][p[2]][1]) \div 7, weekday_of(p[1])>>

\* The value a position appends: the velocity over the window
\* progression[max(0, i-4):i+1], or the total.
pattern_value(progs, p, kind) ==
    IF kind = "velocity"
    THEN compute_pickup_velocity(SubSeq(progs[p[1]], Max(1, p[2] - 4), p[2]), 7)
    ELSE Rat(progs[p[1]][p[2]][2], 1)

\* velocities[key] (kind "velocity") or expected_avail[key] (kind "avail"):
\* the values of the positions of the bucket, by check-in date and index.
pattern_values(progs, key, kind) ==
    LET hits == {p \in pattern_positions(progs, kind) : pattern_key(progs, p) = key}
        order == sorted_asc({p[1] * 100 + p[2] : p \in hits})
    IN  [n \in 1..Len(order) |->
            pattern_value(progs, <<order[n] \div 100, order[n] % 100>>, kind)]

\* The buckets of one table: those with 3 values or more.
pattern_table(progs, kind) ==
    LET keys == {pattern_key(progs, p) : p \in pattern_positions(progs, kind)}
    IN  [key \in {k \in keys : Len(pattern_values(progs, k, kind)) >= 3} |->
            baseline_of(pattern_values(progs, key, kind))]

build_historical_baselines(recs, cutoff) ==
    LET train_records == train_filter(recs, cutoff)
        dates == {train_records[i].check_in_date : i \in 1..Len(train_records)}
        progs == [ci \in {d \in dates : trained(records_of(train_records, d))} |->
                     progression_of(records_of(train_records, ci))]
    IN  [velocity_baselines |-> pattern_table(progs, "velocity"),
         avail_baselines |-> pattern_table(progs, "avail")]

\* The records find_anomaly_dates analyses: check-in date in the window,
\* observed on or before the cutoff.
future_records(recs, cutoff, days) ==
    SelectSeq(recs, LAMBDA r : /\ cutoff + 1 <= r.check_in_date
                               /\ r.check_in_date <= cutoff + days
                               /\ r.parse_date <= cutoff)

\* The metrics of the dates of the list ds (sorted), appended when the date
\* has 3 parse dates or more and its flags are not empty and not no_data.
RECURSIVE future_results(_, _, _, _)
future_results(by_checkin, ds, baselines, cutoff) ==
    IF ds = << >> THEN << >>
    ELSE LET ci_date == Head(ds)
             progression == progression_of(records_of(by_checkin, ci_date))
             m == analyze_pickup_issues(ci_date, progression, baselines, cutoff)
             listed == /\ Len(progression) >= 3
                       /\ m.issue_flags # << >>
                       /\ \A i \in 1..Len(m.issue_flags) : m.issue_flags[i] # "no_data"
         IN  (IF listed THEN <<m>> ELSE << >>)
             \o future_results(by_checkin, Tail(ds), baselines, cutoff)

\* The part of find_anomaly_dates after the training.
find_anomaly_dates(recs, baselines, cutoff, days) ==
    LET by_checkin == future_records(recs, cutoff, days)
        ds == sorted_asc({by_checkin[i].check_in_date : i \in 1..Len(by_checkin)})
    IN  future_results(by_checkin, ds, baselines, cutoff)

\* The rows of check-in date ci seen on the parse dates pds in the rooms
\* given, by parse date and room: room 1 has prof[pd] rooms left, any other
\* room 1.
VelocityRows(ci, pds, rooms, prof) ==
    LET order == sorted_asc({pd * 10 + room : pd \in pds, room \in rooms})
    IN  [n \in 1..Len(order) |->
            SnapshotRecord(ci, order[n] \div 10, order[n] \div 10, order[n] % 10,
                           IF order[n] % 10 = 1 THEN prof[order[n] \div 10] ELSE 1)]

\* Availability of room 1 by parse date: selling one room a day, or flat.
HistProfiles == {[pd \in 0..30 |-> 16 - pd], [pd \in 0..30 |-> 2]}

\* Rows of the past check-in date 15 (a Tuesday): seen on 4 to 7 days, up to
\* the day of the stay, in one room or two.
HistRows ==
    {VelocityRows(15, pds, rooms, prof) :
        pds \in {8..12, 8..14, 9..14, 10..14, 11..14, 11..15},
        rooms \in {{1}, {1, 2}},
        prof \in HistProfiles}

\* Availability of room 1 of the coming dates: flat and high, flat and low,
\* falling, or jumping.
FutureProfiles ==
    {[pd \in 0..30 |-> 10], [pd \in 0..30 |-> 2], [pd \in 0..30 |-> 50 - 2 * pd],
     [pd \in 0..30 |-> IF pd % 2 = 0 THEN 10 ELSE 2]}

\* Rows of the coming check-in date 22 (the next Tuesday): not seen, or seen
\* on 1 to 4 days around day 20.
FutureRows ==
    {VelocityRows(22, pds, {1}, prof) :
        pds \in {{}, {20}, {21}, {19, 20}, {18, 19, 20}, {18, 19, 20, 21}},
        prof \in FutureProfiles}

\* Rows of the coming check-in date 23 (a Wednesday), seen on days 18..20
\* with 3 rooms left, or not seen.
OtherRows == {<< >>, VelocityRows(23, 18..20, {1}, [pd \in 0..30 |-> 3])}

\* The cutoffs: inside the history of date 15, the day of date 15, and two
\* days before date 22.
Cutoffs == {13, 15, 20}

\* ---------------------------------------------------- the progression query

\* A query parameter is a record: kind "missing" when the parameter is not
\* in the query string, else what its text is.  A check_in text is "empty",
\* "malformed" (strptime raises ValueError) or "iso" (the text of the date
\* in field date); a z text is "number" (the text of the float in field value)
\* or "malformed" (float raises ValueError).

\* float(request.args.get("z", "2.0")): the float, or ok = FALSE when float
\* raises ValueError.
float_of_z(z) ==
    IF z.kind = "missing" THEN [ok |-> TRUE, value |-> Float(2)]
    ELSE IF z.kind = "number" THEN [ok |-> TRUE, value |-> z.value]
    ELSE [ok |-> FALSE, value |-> 0]

\* subset of api_progression
query_subset(recs, ci) ==
    SelectSeq(recs, LAMBDA r : r.check_in_date = ci /\ r.parse_date <= ci)

\* totals_by_pd of api_progression: per parse date, the rows of its latest
\* creation_dt within the subset, deduped by room, clamped and summed.
query_totals(subset) ==
    LET latest_dt == latest_dt_by_parse(subset, 1, EmptyDict)
        rows(pd) == SelectSeq(subset, LAMBDA r : /\ r.parse_date = pd
                                                 /\ r.creation_dt = latest_dt[pd])
        per_room(pd) == max_avail_by_key(rows(pd), 1, EmptyDict)
    IN  [pd \in DOMAIN latest_dt |->
            SumOver([k \in DOMAIN per_room(pd) |-> room_contribution(per_room(pd)[k])],
                    DOMAIN per_room(pd))]

\* One point of the response.  parse_date is the date, not its text; lo and
\* hi are in sixteenths (z and scale are in quarters).
query_point(ci, pd, obs, bl, z) ==
    LET ar == evaluate_anomaly(obs, bl, ci - pd, weekday_of(ci), Float(2))
    IN  [parse_date |-> pd, lead |-> ci - pd, observed |-> obs,
         baseline |-> ar.baseline,
         lo |-> 4 * ar.baseline - z * ar.scale,
         hi |-> 4 * ar.baseline + z * ar.scale,
         z_num |-> ar.z_num, z_den |-> ar.z_den, flag |-> ar.flag]

\* The response when no snapshot is available.
no_snapshots(check_in) ==
    [status |-> 200,
     body |-> [check_in |-> check_in, points |-> << >>,
               message |-> "No snapshots available for this check-in date"]]

\* api_progression.  A ValueError of float(...) is not caught: the server
\* answers 500.
api_progression(req, recs, bl) ==
    LET z == float_of_z(req.z)
    IN  IF ~z.ok
        THEN [status |-> 500, body |-> [error |-> "unhandled ValueError"]]
        ELSE IF req.check_in.kind \in {"missing", "empty"}
        THEN [status |-> 400,
              body |-> [error |-> "Missing 'check_in' query param YYYY-MM-DD"]]
        ELSE IF req.check_in.kind = "malformed"
        THEN [status |-> 400,
              body |-> [error |-> "Invalid 'check_in' format. Use YYYY-MM-DD"]]
        ELSE LET ci == req.check_in.date
                 subset == query_subset(recs, ci)
                 totals_by_pd == query_totals(subset)
                 pds == sorted_asc(DOMAIN totals_by_pd)
             IN  IF subset = << >> THEN no_snapshots(req.check_in)
                 ELSE IF DOMAIN totals_by_pd = {} THEN no_snapshots(req.check_in)
                 ELSE [status |-> 200,
                       body |-> [check_in |-> req.check_in,
                                 weekday |-> weekday_of(ci),
                                 z |-> z.value,
                                 points |-> [i \in 1..Len(pds) |->
                                     query_point(ci, pds[i], totals_by_pd[pds[i]],
                                                 bl, z.value)]]]

\* The rows the server may have loaded, as numbers: check-in dates 8 and 9,
\* the scrapes, rooms 1 and 2, -1 or 3 rooms left.
QueryRowCodes ==
    {ci * 10000 + sc[1] * 1000 + sc[2] * 100 + room * 10 + (avail + 1) :
        ci \in {8, 9}, sc \in Scrapes, room \in {1, 2}, avail \in {0 - 1, 3}}

\* The row of a number.
QueryRow(c) ==
    SnapshotRecord(c \div 10000, (c \div 1000) % 10, (c \div 100) % 10,
                   (c \div 10) % 10, (c % 10) - 1)

\* The subsets of S of n elements or fewer.
RECURSIVE SubsetsUpTo(_, _)
SubsetsUpTo(S, n) ==
    IF n = 0 THEN {{}}
    ELSE LET smaller == SubsetsUpTo(S, n - 1)
         IN  smaller \cup {T \cup {x} : T \in smaller, x \in S}

\* The record lists of the server: up to MaxQueryRecords rows, in the order
\* of their numbers.
QueryRecords ==
    {[i \in 1..Cardinality(S) |-> QueryRow(sorted_asc(S)[i])] :
        S \in SubsetsUpTo(QueryRowCodes, MaxQueryRecords)}

\* The check_in parameters of the queries: none, empty, malformed, and the
\* days 8, 9 and 10.
CheckInParams ==
    {[kind |-> "missing", date |-> 0 - 1], [kind |-> "empty", date |-> 0 - 1],
     [kind |-> "malformed", date |-> 0 - 1]}
    \cup {[kind |-> "iso", date |-> d] : d \in {8, 9, 10}}

\* The z parameters of the queries: none, "1.5", and a text that is not a
\* number.
ZParams ==
    {[kind |-> "missing", value |-> 0], [kind |-> "number", value |-> 6],
     [kind |-> "malformed", value |-> 0]}

\* The baseline tables of the server: empty, or the bucket (0, Tuesday).
QueryBaselines ==
    {<< >>, <<[lead |-> 0, weekday |-> 1, med |-> Float(2), scale |-> Float(1), n |-> 1]>>}

\* No baseline tables computed yet.
BlankBase ==
    /\ base_raw = EmptyDict
    /\ base_smooth = EmptyDict

NoIssueArgs == [check_in |-> -1, progression |-> << >>, as_of |-> -1]

NoMetrics == [check_in |-> -1]

NoBaselines == [velocity_baselines |-> EmptyDict, avail_baselines |-> EmptyDict]

\* The velocity module has not run.
BlankVelocity ==
    /\ issue_args = NoIssueArgs
    /\ metrics = NoMetrics
    /\ cutoff_date = 0 - 1
    /\ future_days = 0 - 1
    /\ hist = NoBaselines
    /\ anomalies = << >>

NoRequest ==
    [check_in |-> [kind |-> "none", date |-> 0 - 1],
     z |-> [kind |-> "none", value |-> 0]]

NoResponse == [status |-> 0, body |-> [error |-> "none"]]

\* No query has been received.
BlankQuery ==
    /\ request = NoRequest
    /\ response = NoResponse

\* ----------------------------------------------------------- the actions

\* load_records_from_json_array: one well-formed row is appended.
LoadRecord ==
    /\ pc = "load"
    /\ Len(records) < MaxRecords
    /\ \E r \in RecordInputs : records' = Append(records, r)
    /\ UNCHANGED <<latest, totals, lt_series, pickup, curve, curve_args,
                   baseline, anomaly, anomaly_args, pc>>
    /\ UNCHANGED <<baseVars, velocityVars, queryVars>>

SelectLatest ==
    /\ pc = "load"
    /\ latest' = select_latest_snapshot_per_parse_day(records)
    /\ pc' = "latest"
    /\ UNCHANGED <<records, totals, lt_series, pickup, curve, curve_args,
                   baseline, anomaly, anomaly_args>>
    /\ UNCHANGED <<baseVars, velocityVars, queryVars>>

\* aggregate_total_availability never reads creation_dt, and a list whose
\* records all carry one creation_dt per parse_date passes the reducer
\* unchanged, so every list of rows reaches this action as it was loaded.
AggregateTotal ==
    /\ pc = "latest"
    /\ totals' = aggregate_total_availability(latest)
    /\ pc' = "totals"
    /\ UNCHANGED <<records, latest, lt_series, pickup, curve, curve_args,
                   baseline, anomaly, anomaly_args>>
    /\ UNCHANGED <<baseVars, velocityVars, queryVars>>

ToLeadTimeSeries ==
    /\ pc = "totals"
    /\ lt_series' = to_lead_time_series(totals)
    /\ pc' = "lt"
    /\ UNCHANGED <<records, latest, totals, pickup, curve, curve_args,
                   baseline, anomaly, anomaly_args>>
    /\ UNCHANGED <<baseVars, velocityVars, queryVars>>

ComputePickupCurve ==
    /\ pc = "lt"
    /\ pickup' = compute_pickup_curve(lt_series)
    /\ pc' = "built"
    /\ UNCHANGED <<records, latest, totals, lt_series, curve, curve_args,
                   baseline, anomaly, anomaly_args>>
    /\ UNCHANGED <<baseVars, velocityVars, queryVars>>

\* One call of the pure function per behaviour.
PredictCurveFrom ==
    /\ pc \in {"built", "given"}
    /\ curve_args = NoCurveArgs
    /\ \E check_in \in CurveCheckIns, start_lead \in 0..MaxLead :
          /\ curve' = predict_curve_from(lt_series, pickup, check_in, start_lead)
          /\ curve_args' = [check_in |-> check_in, start_lead |-> start_lead]
    /\ UNCHANGED <<records, latest, totals, lt_series, pickup, baseline,
                   anomaly, anomaly_args, pc>>
    /\ UNCHANGED <<baseVars, velocityVars, queryVars>>

\* One call of the pure function per behaviour.
EvaluateAnomaly ==
    /\ pc = "anomaly"
    /\ anomaly_args = NoAnomalyArgs
    /\ \E observed \in 0..5, lead \in 0..2, weekday \in 0..2,
          z_threshold \in Thresholds :
          /\ anomaly' = evaluate_anomaly(observed, baseline, lead, weekday,
                                         z_threshold)
          /\ anomaly_args' = [observed |-> observed, lead |-> lead,
                              weekday |-> weekday, z_threshold |-> z_threshold]
    /\ UNCHANGED <<records, latest, totals, lt_series, pickup, curve,
                   curve_args, baseline, pc>>
    /\ UNCHANGED <<baseVars, velocityVars, queryVars>>

\* ---------------------------------------------------- the specifications

Blank ==
    /\ records = << >>
    /\ latest = << >>
    /\ totals = EmptyDict
    /\ lt_series = EmptyDict
    /\ pickup = EmptyDict
    /\ curve = << >>
    /\ curve_args = NoCurveArgs
    /\ baseline = << >>
    /\ anomaly = NoAnomaly
    /\ anomaly_args = NoAnomalyArgs
    /\ BlankBase
    /\ BlankVelocity
    /\ BlankQuery

\* The Snapshot Reducer and the Lead-Time Projector of build_all, run on the
\* rows loaded.
Init ==
    /\ Blank
    /\ pc = "load"

Next ==
    \/ LoadRecord
    \/ SelectLatest
    \/ AggregateTotal
    \/ ToLeadTimeSeries

Spec == Init /\ [][Next]_vars

\* The Pickup Estimator and the Curve Predictor, run on a lead-time series
\* of the pipeline (pc = "lt"), or the Curve Predictor called with a pickup
\* table of the caller (pc = "given").
InitCurve ==
    /\ records = << >>
    /\ latest = << >>
    /\ totals = EmptyDict
    /\ curve = << >>
    /\ curve_args = NoCurveArgs
    /\ baseline = << >>
    /\ anomaly = NoAnomaly
    /\ anomaly_args = NoAnomalyArgs
    /\ BlankBase
    /\ BlankVelocity
    /\ BlankQuery
    /\ \/ /\ pc = "lt"
          /\ pickup = EmptyDict
          /\ \E shape \in [CurveCheckIns -> SUBSET (0..MaxLead)],
                prof \in [CurveCheckIns -> {1, 2}] :
                /\ prof[9] = 1
                /\ prof[15] = 2
                /\ lt_series = LtSeriesOf(shape, prof)
       \/ /\ pc = "given"
          /\ pickup \in PickupInputs
          /\ \E shape \in [{8} -> {{}, 0..MaxLead}] :
                lt_series = LtSeriesOf(shape, [ci \in {8} |-> 1])

NextCurve ==
    \/ ComputePickupCurve
    \/ PredictCurveFrom

SpecCurve == InitCurve /\ [][NextCurve]_vars

\* The Pickup Estimator alone, on a lead-time series of the pipeline.
InitPickup ==
    /\ InitCurve
    /\ pc = "lt"

NextPickup == ComputePickupCurve

SpecPickup == InitPickup /\ [][NextPickup]_vars

\* The Anomaly Evaluator called on a baseline table.
InitAnomaly ==
    /\ records = << >>
    /\ latest = << >>
    /\ totals = EmptyDict
    /\ lt_series = EmptyDict
    /\ pickup = EmptyDict
    /\ curve = << >>
    /\ curve_args = NoCurveArgs
    /\ baseline \in BaselineInputs
    /\ anomaly = NoAnomaly
    /\ anomaly_args = NoAnomalyArgs
    /\ pc = "anomaly"
    /\ BlankBase
    /\ BlankVelocity
    /\ BlankQuery

NextAnomaly == EvaluateAnomaly

SpecAnomaly == InitAnomaly /\ [][NextAnomaly]_vars

\* The Baseline Estimator of build_all on a lead-time series.
ComputeBaselineAndScale ==
    /\ pc = "base"
    /\ base_raw' = compute_baseline_and_scale(lt_series)
    /\ pc' = "raw"
    /\ UNCHANGED <<records, latest, totals, lt_series, pickup, curve,
                   curve_args, baseline, anomaly, anomaly_args, base_smooth>>
    /\ UNCHANGED <<velocityVars, queryVars>>

SmoothBaseline ==
    /\ pc = "raw"
    /\ base_smooth' = smooth_baseline(base_raw, 3)
    /\ pc' = "smoothed"
    /\ UNCHANGED <<records, latest, totals, lt_series, pickup, curve,
                   curve_args, baseline, anomaly, anomaly_args, base_raw>>
    /\ UNCHANGED <<velocityVars, queryVars>>

InitBaseline ==
    /\ records = << >>
    /\ latest = << >>
    /\ totals = EmptyDict
    /\ lt_series \in BaseLtInputs
    /\ pickup = EmptyDict
    /\ curve = << >>
    /\ curve_args = NoCurveArgs
    /\ baseline = << >>
    /\ anomaly = NoAnomaly
    /\ anomaly_args = NoAnomalyArgs
    /\ pc = "base"
    /\ BlankBase
    /\ BlankVelocity
    /\ BlankQuery

NextBaseline ==
    \/ ComputeBaselineAndScale
    \/ SmoothBaseline

SpecBaseline == InitBaseline /\ [][NextBaseline]_vars

\* analyze_pickup_issues called once on a target date.
AnalyzePickupIssues ==
    /\ pc = "issues"
    /\ metrics' = analyze_pickup_issues(issue_args.check_in, issue_args.progression,
                                        hist, issue_args.as_of)
    /\ pc' = "analyzed"
    /\ UNCHANGED <<records, latest, totals, lt_series, pickup, curve,
                   curve_args, baseline, anomaly, anomaly_args>>
    /\ UNCHANGED <<issue_args, cutoff_date, future_days, hist, anomalies>>
    /\ UNCHANGED <<baseVars, queryVars>>

InitIssues ==
    /\ records = << >>
    /\ latest = << >>
    /\ totals = EmptyDict
    /\ lt_series = EmptyDict
    /\ pickup = EmptyDict
    /\ curve = << >>
    /\ curve_args = NoCurveArgs
    /\ baseline = << >>
    /\ anomaly = NoAnomaly
    /\ anomaly_args = NoAnomalyArgs
    /\ pc = "issues"
    /\ BlankBase
    /\ BlankQuery
    /\ \E dta \in IssueDaysToArrival, progression \in IssueProgressions :
          issue_args = [check_in |-> IssueAsOf + dta, progression |-> progression,
                        as_of |-> IssueAsOf]
    /\ hist \in IssueBaselines
    /\ metrics = NoMetrics
    /\ cutoff_date = 0 - 1
    /\ future_days = 0 - 1
    /\ anomalies = << >>

NextIssues == AnalyzePickupIssues

SpecIssues == InitIssues /\ [][NextIssues]_vars

\* find_anomaly_dates: the training on the records before the cutoff.
BuildHistoricalBaselines ==
    /\ pc = "records"
    /\ hist' = build_historical_baselines(records, cutoff_date)
    /\ pc' = "trained"
    /\ UNCHANGED <<records, latest, totals, lt_series, pickup, curve,
                   curve_args, baseline, anomaly, anomaly_args>>
    /\ UNCHANGED <<issue_args, metrics, cutoff_date, future_days, anomalies>>
    /\ UNCHANGED <<baseVars, queryVars>>

\* find_anomaly_dates: the analysis of the dates of the window.
AnalyzeFutureDates ==
    /\ pc = "trained"
    /\ anomalies' = find_anomaly_dates(records, hist, cutoff_date, future_days)
    /\ pc' = "found"
    /\ UNCHANGED <<records, latest, totals, lt_series, pickup, curve,
                   curve_args, baseline, anomaly, anomaly_args>>
    /\ UNCHANGED <<issue_args, metrics, cutoff_date, future_days, hist>>
    /\ UNCHANGED <<baseVars, queryVars>>

InitFind ==
    /\ \E h \in HistRows, f \in FutureRows, o \in OtherRows :
          records = h \o f \o o
    /\ latest = << >>
    /\ totals = EmptyDict
    /\ lt_series = EmptyDict
    /\ pickup = EmptyDict
    /\ curve = << >>
    /\ curve_args = NoCurveArgs
    /\ baseline = << >>
    /\ anomaly = NoAnomaly
    /\ anomaly_args = NoAnomalyArgs
    /\ pc = "records"
    /\ BlankBase
    /\ BlankQuery
    /\ issue_args = NoIssueArgs
    /\ metrics = NoMetrics
    /\ cutoff_date \in Cutoffs
    /\ future_days \in 1..MaxFutureDays
    /\ hist = NoBaselines
    /\ anomalies = << >>

NextFind ==
    \/ BuildHistoricalBaselines
    \/ AnalyzeFutureDates

SpecFind == InitFind /\ [][NextFind]_vars

\* One progression query answered by the server.
ApiProgression ==
    /\ pc = "ready"
    /\ request = NoRequest
    /\ \E check_in \in CheckInParams, z \in ZParams :
          /\ request' = [check_in |-> check_in, z |-> z]
          /\ response' = api_progression(request', records, baseline)
    /\ UNCHANGED <<records, latest, totals, lt_series, pickup, curve,
                   curve_args, baseline, anomaly, anomaly_args, pc>>
    /\ UNCHANGED <<baseVars, velocityVars>>

\* The server after start-up: the records loaded, their latest snapshots
\* and totals, and a baseline table.
InitQuery ==
    /\ records \in QueryRecords
    /\ latest = select_latest_snapshot_per_parse_day(records)
    /\ totals = aggregate_total_availability(latest)
    /\ lt_series = EmptyDict
    /\ pickup = EmptyDict
    /\ curve = << >>
    /\ curve_args = NoCurveArgs
    /\ baseline \in QueryBaselines
    /\ anomaly = NoAnomaly
    /\ anomaly_args = NoAnomalyArgs
    /\ pc = "ready"
    /\ BlankBase
    /\ BlankVelocity
    /\ BlankQuery

NextQuery == ApiProgression

SpecQuery == InitQuery /\ [][NextQuery]_vars

\* -------------------------------------------------------------- the claims

\* The elements of a list.
Range(q) == {q[i] : i \in 1..Len(q)}

\* C1: End-to-end example.  For the check-in date 2025-05-13 with totals 10,
\* 9, 7, 5 at leads 3, 2, 1, 0, compute_pickup_curve yields the deltas 1
\* (step 3->2), 2 (step 2->1) and 2 (step 1->0), and predict_curve_from
\* started at lead 3 returns (3,10.0), (2,11.0), (1,13.0), (0,15.0).
C1_EndToEndExample ==
    (pc = "built" /\ lt_series = ExampleLtSeries) =>
        /\ DOMAIN pickup = {<<3, 1>>, <<2, 1>>, <<1, 1>>}
        /\ pickup[<<3, 1>>] = Float(1)
        /\ pickup[<<2, 1>>] = Float(2)
        /\ pickup[<<1, 1>>] = Float(2)
        /\ curve_args = [check_in |-> 8, start_lead |-> 3] =>
               curve = << <<3, Float(10)>>, <<2, Float(11)>>,
                          <<1, Float(13)>>, <<0, Float(15)>> >>

\* The check-in dates of weekday wd observed at both lead L and lead L - 1.
PairDates(L, wd) ==
    {ci \in {k[1] : k \in DOMAIN lt_series} :
        /\ weekday_of(ci) = wd
        /\ <<ci, L>> \in DOMAIN lt_series
        /\ <<ci, L - 1>> \in DOMAIN lt_series}

\* The list of A(L-1) - A(L) of the dates of PairDates(L, wd), as floats.
PairDeltas(L, wd) ==
    LET dates == sorted_asc(PairDates(L, wd))
    IN  [i \in 1..Len(dates) |->
            Float(lt_series[<<dates[i], L - 1>>] - lt_series[<<dates[i], L>>])]

\* C2: Pickup Table definition.  For every lead L >= 1 and weekday w the
\* table has a bucket (L, w) exactly when some check-in date of weekday w was
\* observed at both L and L - 1, and its value is the median of
\* A(L-1) - A(L) over all such dates.
C2_PickupTableDefinition ==
    pc = "built" =>
        /\ \A key \in DOMAIN pickup : key[1] >= 1
        /\ \A L \in 1..MaxLead, wd \in 0..6 :
              /\ <<L, wd>> \in DOMAIN pickup <=> PairDates(L, wd) # {}
              /\ <<L, wd>> \in DOMAIN pickup /\ PairDates(L, wd) # {} =>
                     pickup[<<L, wd>>] = median(PairDeltas(L, wd))

\* C3: Curve floor.  Every expected value of the sequence returned by
\* predict_curve_from is >= 0.
C3_CurveFloor ==
    \A i \in 1..Len(curve) : curve[i][2] >= 0

\* The delta the claim C4 names for lead L and weekday wd.
ClaimedDelta(L, wd) ==
    LET same_lead == {k \in DOMAIN pickup : k[1] = L}
        wds == sorted_asc({k[2] : k \in same_lead})
    IN  IF <<L, wd>> \in DOMAIN pickup THEN pickup[<<L, wd>>]
        ELSE IF same_lead # {}
             THEN median([i \in 1..Len(wds) |-> pickup[<<L, wds[i]>>]])
             ELSE 0

\* A predicted curve whose floor was needed: some step would have gone below
\* zero.
C3_Witness ==
    /\ curve_args # NoCurveArgs
    /\ \E i \in 1..(Len(curve) - 1) :
          /\ curve[i][2] + ClaimedDelta(curve[i][1], weekday_of(curve_args.check_in)) < 0
          /\ curve[i + 1][2] = 0

\* C4: Curve shape.  predict_curve_from returns start_lead + 1 pairs with
\* leads start_lead, ..., 0; the first value is the observed total at
\* (check_in, start_lead) if present and 0 otherwise; each later value is
\* max(0, previous value + delta), delta being the pickup bucket of (lead,
\* weekday of check_in), else the median of the buckets of that lead, else 0.
C4_CurveShape ==
    curve_args # NoCurveArgs =>
        LET ci == curve_args.check_in
            sl == curve_args.start_lead
        IN  /\ Len(curve) = sl + 1
            /\ \A i \in 1..Len(curve) : curve[i][1] = sl - (i - 1)
            /\ curve[1][2] = IF <<ci, sl>> \in DOMAIN lt_series
                             THEN Float(lt_series[<<ci, sl>>]) ELSE 0
            /\ \A i \in 2..Len(curve) :
                  curve[i][2] =
                      Max(0, curve[i - 1][2]
                             + ClaimedDelta(curve[i - 1][1], weekday_of(ci)))

\* A curve seeded from an observed total that takes one step with the bucket
\* of its own weekday and one step with the median of two other weekdays.
C4_Witness ==
    /\ curve_args # NoCurveArgs
    /\ <<curve_args.check_in, curve_args.start_lead>> \in DOMAIN lt_series
    /\ \E L \in 1..curve_args.start_lead :
          <<L, weekday_of(curve_args.check_in)>> \in DOMAIN pickup
    /\ \E L \in 1..curve_args.start_lead :
          /\ <<L, weekday_of(curve_args.check_in)>> \notin DOMAIN pickup
          /\ Cardinality({k \in DOMAIN pickup : k[1] = L}) = 2

\* C5: Anomaly threshold boundary.  flag is "low" exactly when
\* z < -threshold, "high" exactly when z > threshold and "normal" otherwise;
\* z equal to +threshold or -threshold is "normal".
C5_ThresholdBoundary ==
    anomaly_args # NoAnomalyArgs =>
        LET t  == anomaly_args.z_threshold
            zn == anomaly.z_num
            zd == anomaly.z_den
        IN  /\ zd > 0
            /\ anomaly.flag = "low" <=> 4 * zn < -(t * zd)
            /\ anomaly.flag = "high" <=> 4 * zn > t * zd
            /\ anomaly.flag = "normal" <=>
                   (4 * zn >= -(t * zd) /\ 4 * zn <= t * zd)
            /\ (4 * zn = t * zd \/ 4 * zn = -(t * zd)) => anomaly.flag = "normal"

\* An observation whose z-score is exactly the threshold.
C5_Witness ==
    /\ anomaly_args # NoAnomalyArgs
    /\ anomaly.z_num # 0
    /\ 4 * anomaly.z_num = anomaly_args.z_threshold * anomaly.z_den
    /\ anomaly.flag = "normal"

\* The positions of the buckets of the table with the lead looked up, and
\* with the lead and the weekday looked up.
SameLead == {i \in 1..Len(baseline) : baseline[i].lead = anomaly_args.lead}

SameKey == {i \in SameLead : baseline[i].weekday = anomaly_args.weekday}

\* C6: Anomaly lookup fallback.  With no bucket (lead, weekday) the median
\* and scale of a bucket of the same lead are used; with no bucket of that
\* lead, median 0 and scale 1; a bucket (lead, weekday) that exists is the
\* one used.
C6_LookupFallback ==
    anomaly_args # NoAnomalyArgs =>
        /\ SameKey # {} =>
               \E i \in SameKey : /\ anomaly.baseline = baseline[i].med
                                  /\ anomaly.scale = baseline[i].scale
        /\ (SameKey = {} /\ SameLead # {}) =>
               \E i \in SameLead : /\ anomaly.baseline = baseline[i].med
                                   /\ anomaly.scale = baseline[i].scale
        /\ SameLead = {} => (anomaly.baseline = 0 /\ anomaly.scale = Float(1))
        /\ anomaly.observed = anomaly_args.observed

\* A lookup that misses its weekday in a table whose first bucket has another
\* lead and whose second bucket has the lead looked up.
C6_Witness ==
    /\ anomaly_args # NoAnomalyArgs
    /\ SameKey = {}
    /\ SameLead = {2}
    /\ anomaly.baseline = baseline[2].med
    /\ baseline[1].med # baseline[2].med

\* The records handed to aggregate_total_availability for the pair p and
\* the room.
RoomRecords(p, room) ==
    {r \in Range(latest) : /\ <<r.check_in_date, r.parse_date>> = p
                           /\ r.room_id = room}

\* The largest availability among the records of the room for the pair.
RoomMax(p, room) ==
    CHOOSE a \in {r.availability : r \in RoomRecords(p, room)} :
        \A r \in RoomRecords(p, room) : r.availability <= a

\* C7: Non-negativity of totals.  Every entry of the Totals Table is >= 0,
\* also with negative availabilities in the input; a room whose maximum is
\* negative does not reduce the total of the other rooms.
C7_TotalsNonNegative ==
    \A p \in DOMAIN totals :
        /\ totals[p] >= 0
        /\ \A r \in Range(latest) :
              <<r.check_in_date, r.parse_date>> = p => totals[p] >= r.availability

\* A total of a pair with a room of negative maximum beside a room of
\* positive maximum.
C7_Witness ==
    /\ pc = "totals"
    /\ \E p \in DOMAIN totals, neg, pos \in {1, 2} :
          /\ RoomRecords(p, neg) # {}
          /\ RoomRecords(p, pos) # {}
          /\ RoomMax(p, neg) < 0
          /\ RoomMax(p, pos) > 0
          /\ totals[p] = RoomMax(p, pos)

\* C8: Room dedup.  For every (check-in date, observation date) the total is
\* the sum over the distinct rooms of the maximum availability among the
\* room's records for the pair, clamped at 0.
C8_RoomDedup ==
    pc \in {"totals", "lt"} =>
        /\ DOMAIN totals = {<<r.check_in_date, r.parse_date>> : r \in Range(latest)}
        /\ \A p \in DOMAIN totals :
              LET rooms == {r.room_id : r \in {q \in Range(latest) :
                                <<q.check_in_date, q.parse_date>> = p}}
                  best == [room \in rooms |-> Max(0, RoomMax(p, room))]
              IN  totals[p] = SumOver(best, rooms)

\* The case of the repository's test: one room with availabilities 2 and 3
\* for the same pair, counted as 3.
C8_Witness ==
    /\ pc = "totals"
    /\ \E i, j \in 1..Len(latest) :
          /\ i < j
          /\ latest[i].check_in_date = latest[j].check_in_date
          /\ latest[i].parse_date = latest[j].parse_date
          /\ latest[i].room_id = latest[j].room_id
          /\ latest[i].availability = 3
          /\ latest[j].availability = 2
          /\ totals[<<latest[i].check_in_date, latest[i].parse_date>>] = 3

\* r has the maximum creation_dt among the input records of its parse_date.
IsLatestOfDay(r) ==
    \A q \in Range(records) :
        q.parse_date = r.parse_date => q.creation_dt <= r.creation_dt

\* C9: Latest snapshot per observation date.  The reducer returns exactly the
\* input records whose creation_dt is the maximum creation_dt of their
\* parse_date; every observation date of the input is still present, the
\* records kept for one observation date share one creation_dt, and the
\* reducer applied to its own output returns the same records.
C9_LatestSnapshot ==
    pc # "load" =>
        /\ latest = SelectSeq(records, IsLatestOfDay)
        /\ {r.parse_date : r \in Range(latest)} = {r.parse_date : r \in Range(records)}
        /\ \A r, q \in Range(latest) :
              r.parse_date = q.parse_date => r.creation_dt = q.creation_dt
        /\ select_latest_snapshot_per_parse_day(latest) = latest

\* An input with an earlier and a later snapshot of one observation date, of
\* which the earlier is dropped.
C9_Witness ==
    /\ pc = "latest"
    /\ latest # << >>
    /\ \E r \in Range(records) :
          /\ r \notin Range(latest)
          /\ \E q \in Range(latest) :
                r.parse_date = q.parse_date /\ r.creation_dt < q.creation_dt

\* C10: Lead-time exclusion.  The Lead-Time Series has an entry
\* (check_in, lead) exactly for the Totals Table entries (check_in,
\* observation date) with lead = check_in - observation date >= 0, with the
\* same total; an observation after the check-in date gives no entry and
\* lead 0 is kept.
C10_LeadTimeExclusion ==
    pc = "lt" =>
        /\ DOMAIN lt_series =
               {<<p[1], p[1] - p[2]>> : p \in {q \in DOMAIN totals : q[2] <= q[1]}}
        /\ \A k \in DOMAIN lt_series :
              /\ k[2] >= 0
              /\ lt_series[k] = totals[<<k[1], k[1] - k[2]>>]

\* A Totals Table with an observation after the check-in date, which is
\* dropped, and one on the check-in date, which is kept at lead 0.
C10_Witness ==
    /\ pc = "lt"
    /\ \E p \in DOMAIN totals : p[2] > p[1]
    /\ \E k \in DOMAIN lt_series : k[2] = 0 /\ lt_series[k] > 0

\* The non-empty subsets of the dates of PairDates(L, wd).
PairDateSets(L, wd) == (SUBSET PairDates(L, wd)) \ {{}}

\* The list of A(L-1) - A(L) of the dates of D, as floats.
DeltasOf(D, L) ==
    LET dates == sorted_asc(D)
    IN  [i \in 1..Len(dates) |->
            Float(lt_series[<<dates[i], L - 1>>] - lt_series[<<dates[i], L>>])]

C17_BucketExistence ==
    pc \in {"raw", "smoothed"} =>
        \A k \in DOMAIN lt_series :
            <<k[2], weekday_of(k[1])>> \in DOMAIN base_raw

\* A lead observed for check-in dates of two weekdays, one of them alone in
\* its bucket.
C17_Witness ==
    /\ pc = "raw"
    /\ {<<8, 0>>, <<15, 0>>, <<9, 0>>} \subseteq DOMAIN lt_series
    /\ {<<0, 1>>, <<0, 2>>} \subseteq DOMAIN base_raw

\* The raw buckets within 3 leads of key, on its weekday.
RawNeighbours(key) ==
    {<<key[1] + d, key[2]>> : d \in (0 - 3)..3} \cap DOMAIN base_raw

C20_SmoothedKeySet ==
    pc = "smoothed" => DOMAIN base_smooth = DOMAIN base_raw

\* C20, as the code has it: the smoothed table has a bucket for
\* (lead, weekday) if and only if lead is the lead of some raw bucket,
\* weekday the weekday of some raw bucket, and a raw bucket (lead + d,
\* weekday) with d in [-3, 3] exists; so every raw bucket is kept, and a
\* combination without raw samples gets a bucket when it has such a
\* neighbour.
C20_SmoothedKeySetAmended ==
    pc = "smoothed" =>
        /\ \A lead \in 0..MaxBaseLead, wd \in 0..6 :
              <<lead, wd>> \in DOMAIN base_smooth <=>
                  /\ \E k \in DOMAIN base_raw : k[1] = lead
                  /\ \E k \in DOMAIN base_raw : k[2] = wd
                  /\ RawNeighbours(<<lead, wd>>) # {}
        /\ DOMAIN base_smooth \subseteq (0..MaxBaseLead) \X (0..6)
        /\ DOMAIN base_raw \subseteq DOMAIN base_smooth

\* A Wednesday bucket created at lead 1 from its neighbour at lead 0, and
\* none created at lead 4, more than 3 leads away.
C20_Witness ==
    /\ pc = "smoothed"
    /\ {k \in DOMAIN base_raw : k[2] = 2} = {<<0, 2>>}
    /\ {k[1] : k \in {kk \in DOMAIN base_raw : kk[2] = 1}} = {1, 4}
    /\ <<1, 2>> \in DOMAIN base_smooth
    /\ <<4, 2>> \notin DOMAIN base_smooth

\* The flags of the metrics.
Flagged(flag) == flag \in Range(metrics.issue_flags)

\* The bucket of the target date of analyze_pickup_issues.
IssueKey ==
    <<(issue_args.check_in - issue_args.as_of) \div 7,
      weekday_of(issue_args.check_in)>>

\* C13: Issue flag rules.  For a non-empty progression, issue_flags holds
\* exactly the flags whose condition holds, each decided independently:
\* slow_pickup iff a velocity baseline exists, velocity > its p75 and
\* days-to-arrival < 30; fast_pickup iff a velocity baseline exists,
\* velocity < its p25 and days-to-arrival > 45; high_availability iff an
\* availability baseline exists, current total > its p75 and days-to-arrival
\* < 21; early_sellout iff an availability baseline exists, current total <
\* its p25 and days-to-arrival > 30; stalled_pickup iff the trend is stable,
\* days-to-arrival < 14 and current total > 2; erratic_pickup iff
\* volatility > 3.0.
C13_IssueFlagRules ==
    (pc = "analyzed" /\ issue_args.progression # << >>) =>
        LET dta == issue_args.check_in - issue_args.as_of
            cur == issue_args.progression[Len(issue_args.progression)][2]
            vel == metrics.pickup_velocity
            vb == hist.velocity_baselines
            ab == hist.avail_baselines
        IN  /\ Flagged("slow_pickup") <=>
                  /\ IssueKey \in DOMAIN vb
                  /\ RatLt(vb[IssueKey].p75, vel)
                  /\ dta < 30
            /\ Flagged("fast_pickup") <=>
                  /\ IssueKey \in DOMAIN vb
                  /\ RatLt(vel, vb[IssueKey].p25)
                  /\ dta > 45
            /\ Flagged("high_availability") <=>
                  /\ IssueKey \in DOMAIN ab
                  /\ ab[IssueKey].p75.num < cur * ab[IssueKey].p75.den
                  /\ dta < 21
            /\ Flagged("early_sellout") <=>
                  /\ IssueKey \in DOMAIN ab
                  /\ cur * ab[IssueKey].p25.den < ab[IssueKey].p25.num
                  /\ dta > 30
            /\ Flagged("stalled_pickup") <=>
                  /\ metrics.trend = "stable"
                  /\ dta < 14
                  /\ cur > 2
            /\ Flagged("erratic_pickup") <=>
                  metrics.volatility_sq.num > 9 * metrics.volatility_sq.den
            /\ Range(metrics.issue_flags) \subseteq
                  {"slow_pickup", "fast_pickup", "high_availability",
                   "early_sellout", "stalled_pickup", "erratic_pickup"}
            /\ Cardinality(Range(metrics.issue_flags)) = Len(metrics.issue_flags)

\* A date carrying three flags at once while a fourth rule fails on the
\* trend alone: a rising, erratic progression 13 days out, with both
\* baselines.
C13_Witness ==
    /\ pc = "analyzed"
    /\ issue_args.check_in - issue_args.as_of = 13
    /\ metrics.issue_flags = <<"slow_pickup", "high_availability", "erratic_pickup">>
    /\ metrics.trend = "increasing"
    /\ metrics.current_availability > 2

\* C18: Current velocity window.  The current velocity of
\* analyze_pickup_issues is the least-squares slope over at most the 5 most
\* recent progression points, the window of the training: two progressions
\* that agree on their last 5 points give the same pickup_velocity.
C18_VelocityWindow ==
    (pc = "analyzed" /\ issue_args.progression # << >>) =>
        metrics.pickup_velocity =
            compute_pickup_velocity(LastPoints(issue_args.progression, 5), 5)

\* The check-in dates of the records.
CheckInDates == {records[i].check_in_date : i \in 1..Len(records)}

\* The records of check-in date d observed on or before the cutoff.
SeenByCutoff(d) ==
    SelectSeq(records, LAMBDA r : r.check_in_date = d /\ r.parse_date <= cutoff_date)

\* The flags of the analysis of date d as of the cutoff.
AnalysisFlags(d) ==
    Range(analyze_pickup_issues(d, progression_of(SeenByCutoff(d)), hist,
                                cutoff_date).issue_flags)

\* C12: find_anomaly_dates result set.  The list has an entry for a check-in
\* date exactly when the date lies in (cutoff, cutoff + window], has a record
\* observed on or before the cutoff, and its analysis carries an issue flag
\* other than no_data: no flagged date of the window is left out and no
\* unflagged date is listed.
C12_ResultSet ==
    pc = "found" =>
        \A d \in CheckInDates \cup {anomalies[i].check_in : i \in 1..Len(anomalies)} :
            (\E i \in 1..Len(anomalies) : anomalies[i].check_in = d) <=>
                /\ cutoff_date < d
                /\ d <= cutoff_date + future_days
                /\ SeenByCutoff(d) # << >>
                /\ AnalysisFlags(d) \ {"no_data"} # {}

\* Alternative records observed on or after the cutoff.
LateRows ==
    {<< >>,
     VelocityRows(15, cutoff_date..(cutoff_date + 1), {1, 2}, [pd \in 0..30 |-> 7]),
     VelocityRows(15, cutoff_date..(cutoff_date + 2), {1, 2}, [pd \in 0..30 |-> 16 - pd])
        \o VelocityRows(22, cutoff_date..(cutoff_date + 1), {1}, [pd \in 0..30 |-> 9])}

\* C14: Temporal causality of the velocity baselines.  The baselines depend
\* only on the records observed strictly before the cutoff: a record set
\* that agrees with the records on those and differs on the records observed
\* on or after the cutoff gives identical baselines.
C14_TemporalCausality ==
    pc \in {"trained", "found"} =>
        \A late \in LateRows :
            build_historical_baselines(
                SelectSeq(records, LAMBDA r : r.parse_date < cutoff_date) \o late,
                cutoff_date) = hist

\* Baselines trained on date 15 cut at day 13, with records of days 13 and
\* 14 left out; a later cutoff, keeping them, gives other baselines.
C14_Witness ==
    /\ pc = "trained"
    /\ cutoff_date = 13
    /\ \E i \in 1..Len(records) :
          records[i].check_in_date = 15 /\ records[i].parse_date >= 13
    /\ <<0, 1>> \in DOMAIN hist.velocity_baselines
    /\ <<0, 1>> \in DOMAIN hist.avail_baselines
    /\ build_historical_baselines(records, cutoff_date + 10) # hist

\* C15: Progression query on empty data.  A query for a well-formed check-in
\* date that has no record observed on or before the check-in date returns a
\* successful response with an empty point list and an explanatory message,
\* never an error response.
C15_EmptyData ==
    (/\ request.check_in.kind = "iso"
     /\ query_subset(records, request.check_in.date) = << >>) =>
        /\ response.status = 200
        /\ DOMAIN response.body = {"check_in", "points", "message"}
        /\ response.body.points = << >>

\* C16: Query input validation.  A query whose check_in parameter is missing
\* or is not a valid YYYY-MM-DD date is answered with a rejected request
\* (400) carrying an explanatory message, whatever the other query
\* parameters are; it never ends in an unhandled failure and never proceeds
\* with a defaulted date.
C16_InputValidation ==
    request.check_in.kind \in {"missing", "empty", "malformed"} =>
        /\ response.status = 400
        /\ DOMAIN response.body = {"error"}

\* The points of the response, none when the query was not answered with
\* points.
ResponsePoints ==
    IF "points" \in DOMAIN response.body THEN response.body.points ELSE << >>

\* C21: Query reduction agrees with the Snapshot Reducer.  For every record
\* set, check-in date ci and observation date pd <= ci, the progression
\* query returns a point for pd exactly when the Totals Table built by
\* select_latest_snapshot_per_parse_day and aggregate_total_availability has
\* an entry for (ci, pd), and the observed total of the point is that entry.
C21_QueryAgreesWithReducer ==
    (request.check_in.kind = "iso" /\ response.status = 200) =>
        LET ci == request.check_in.date
        IN  \A pd \in 0..ci :
                /\ (\E i \in 1..Len(ResponsePoints) :
                        ResponsePoints[i].parse_date = pd)
                       <=> <<ci, pd>> \in DOMAIN totals
                /\ \A i \in 1..Len(ResponsePoints) :
                       ResponsePoints[i].parse_date = pd =>
                           /\ <<ci, pd>> \in DOMAIN totals
                           /\ ResponsePoints[i].observed = totals[<<ci, pd>>]

====
